---- MODULE Spec2Model ----
(***************************************************************************)
(* solve_3sat of Latest_Research.py: a DIMACS formula is parsed, a greedy  *)
(* first pass assigns every variable a polarity by occurrence counts, and  *)
(* a bounded local search flips variables of randomly chosen unsatisfied   *)
(* clauses.  One behaviour of the model is one call of solve_3sat.         *)
(*                                                                         *)
(* Clause indices are 1-based here (Python's index plus one); a dict is a  *)
(* function whose DOMAIN is the dict's key set.                            *)
(***************************************************************************)
EXTENDS Integers, Sequences, FiniteSets, TLC

\* Bounds of the model: formulas over the variable ids 1..MaxVar, with a
\* number of clauses in ClauseCounts, each clause of a length in ClauseLens.
MaxVar == 2
Vars == 1..MaxVar
ClauseCounts == {0, 1, 2, 3}
ClauseLens == {1, 2}

\* Program constants of the flip budget.
FlipsPerVariable == 5
DefaultFlips == 50

VARIABLES
    source,                        \* the file at file_path
    pc,                            \* position in solve_3sat
    num_variables,                 \* parse_dimacs' first result
    clauses,                       \* parse_dimacs' second result
    best_assignment,               \* the working assignment (dict var -> bool)
    max_satisfied_count,           \* cached satisfied count
    assignment_steps,              \* first-pass decision records
    second_pass_steps,             \* accepted-flip decision records
    flip_count,                    \* iterations of the second-pass loop begun
    target_clause_idx,             \* target of the last loop iteration (0: none yet)
    best_candidate,                \* best_flip_*_candidate / best_candidate_* of it
    result                         \* what solve_3sat returned ({} before it returns)

vars == <<source, pc, num_variables, clauses, best_assignment,
          max_satisfied_count, assignment_steps, second_pass_steps,
          flip_count, target_clause_idx, best_candidate, result>>

\* Python's None and a present value, as a set of at most one element.
NoneVal == {}
Some(x) == {x}
The(opt) == CHOOSE x \in opt : TRUE

Abs(x) == IF x < 0 THEN -x ELSE x

Range(s) == {s[i] : i \in 1..Len(s)}

EmptyDict == [v \in {} |-> FALSE]

\* dict d with d[k] = v set (key added when absent).
DictSet(d, k, v) == [x \in (DOMAIN d) \cup {k} |-> IF x = k THEN v ELSE d[x]]

----------------------------------------------------------------------------
\* Inputs.

Literals == Vars \cup {-v : v \in Vars}

ClauseSpace == UNION {[1..n -> Literals] : n \in ClauseLens}

\* A number identifying a clause (its literals as digits), to order clauses by.
RECURSIVE ClauseCode(_, _)
ClauseCode(c, k) ==
    IF k = 0 THEN 0
    ELSE ClauseCode(c, k - 1) * (2 * MaxVar + 2) + (c[k] + MaxVar + 1)

\* The formulas the inputs are drawn from: nothing solve_3sat computes depends
\* on the order of the clauses but the indices it reports, so one order of
\* each multiset of clauses is taken.
OrderedFormulas ==
    UNION {{f \in [1..n -> ClauseSpace] :
               \A i \in 1..(n - 1) :
                   ClauseCode(f[i], Len(f[i])) <= ClauseCode(f[i + 1], Len(f[i + 1]))} :
           n \in ClauseCounts}

\* The unsatisfiable formula {(1), (-1)}, in the order it is written.
ExampleFormulas == {<< <<1>>, <<-1>> >>}

FormulaSpace == OrderedFormulas \cup ExampleFormulas

\* The header values p cnf <V> the inputs are drawn from (0: no header).
HeaderValues == {0} \cup Vars

\* A source file: missing, malformed (some line raises while parsing), or a
\* well-formed DIMACS text with header value V and the given clause lines.
Sources ==
    {[kind |-> "missing", V |-> 0, clauses |-> <<>>]}
    \cup {[kind |-> "malformed", V |-> v, clauses |-> f] :
              v \in HeaderValues, f \in {g \in FormulaSpace : Len(g) <= 1}}
    \cup {[kind |-> "ok", V |-> v, clauses |-> f] :
              v \in HeaderValues, f \in FormulaSpace}

----------------------------------------------------------------------------
\* Mutant: a malformed file yields what was parsed before the failing line.
parse_dimacs_keeps_partial(src) ==
    IF src.kind = "missing" THEN <<0, <<>>>> ELSE <<src.V, src.clauses>>

\* parse_dimacs: (0, []) on any exception, else the header's variable count
\* and the non-empty clauses.
parse_dimacs(src) ==
    IF src.kind = "ok" THEN <<src.V, src.clauses>> ELSE <<0, <<>>>>

\* True iff the literal evaluates to true under the assignment.
literal_true(literal, assignment) ==
    /\ Abs(literal) \in DOMAIN assignment
    /\ \/ (literal > 0 /\ assignment[Abs(literal)])
       \/ (literal < 0 /\ ~assignment[Abs(literal)])

is_clause_satisfied(clause, assignment) ==
    \E j \in 1..Len(clause) : literal_true(clause[j], assignment)

count_satisfied_clauses(cls, assignment) ==
    Cardinality({i \in 1..Len(cls) : is_clause_satisfied(cls[i], assignment)})

\* For each clause, the number of its literal positions that are true.
get_literal_satisfaction_counts(cls, assignment) ==
    [i \in 1..Len(cls) |->
        Cardinality({j \in 1..Len(cls[i]) : literal_true(cls[i][j], assignment)})]

----------------------------------------------------------------------------
\* First pass: greedy heuristic.

\* variable_occurrence_map[literal]: the clauses the literal appears in.
variable_occurrence_map(cls, literal) ==
    {i \in 1..Len(cls) : literal \in Range(cls[i])}

RECURSIVE SortedAscending(_)
SortedAscending(S) ==
    IF S = {} THEN <<>>
    ELSE LET m == CHOOSE x \in S : \A y \in S : x <= y
         IN  <<m>> \o SortedAscending(S \ {m})

\* sorted(list(set(abs(l) for clause in clauses for l in clause)))
all_unique_vars(cls) ==
    SortedAscending({Abs(l) : l \in UNION {Range(cls[i]) : i \in 1..Len(cls)}})

\* The sort key: len(variable_occurrence_map[x]) + len(variable_occurrence_map[-x]).
occurrence_key(cls, x) ==
    Cardinality(variable_occurrence_map(cls, x))
        + Cardinality(variable_occurrence_map(cls, -x))

\* Insert x into a list sorted by descending key, behind every element whose
\* key is at least x's: elements of equal key keep their arrival order.
InsertDescending(cls, sorted, x) ==
    LET ahead == {k \in 1..Len(sorted) :
                     occurrence_key(cls, sorted[k]) >= occurrence_key(cls, x)}
        n == Cardinality(ahead)
    IN  SubSeq(sorted, 1, n) \o <<x>> \o SubSeq(sorted, n + 1, Len(sorted))

RECURSIVE StableSortDescending(_, _, _)
StableSortDescending(cls, list, k) ==
    IF k = 0 THEN <<>>
    ELSE InsertDescending(cls, StableSortDescending(cls, list, k - 1), list[k])

\* sorted(all_unique_vars, key=..., reverse=True): a stable sort.
sorted_variables_by_occurrence(cls) ==
    StableSortDescending(cls, all_unique_vars(cls), Len(all_unique_vars(cls)))

\* Mutant: a tie of the two counts goes to the negative literal.
chosen_literal_strict(cls, var_abs) ==
    LET pos_size == Cardinality(variable_occurrence_map(cls, var_abs))
        neg_size == Cardinality(variable_occurrence_map(cls, -var_abs))
    IN  IF pos_size > neg_size THEN var_abs ELSE -var_abs

\* The polarity chosen for var_abs: var_abs if pos_size >= neg_size, else -var_abs.
chosen_literal(cls, var_abs) ==
    LET pos_size == Cardinality(variable_occurrence_map(cls, var_abs))
        neg_size == Cardinality(variable_occurrence_map(cls, -var_abs))
    IN  IF pos_size >= neg_size THEN var_abs ELSE -var_abs

\* The decision record of a first-pass assignment; the reason names the chosen
\* literal and the two occurrence counts.
first_pass_step(cls, var_abs) ==
    LET pos_size == Cardinality(variable_occurrence_map(cls, var_abs))
        neg_size == Cardinality(variable_occurrence_map(cls, -var_abs))
        lit == chosen_literal(cls, var_abs)
    IN  [var |-> var_abs, val |-> lit > 0,
         reason |-> [chose |-> lit, pos |-> pos_size, neg |-> neg_size]]

\* The loop over sorted_variables_by_occurrence, after its first k variables:
\* set_variables and assignment_steps.
RECURSIVE first_pass_loop(_, _, _)
first_pass_loop(cls, order, k) ==
    IF k = 0 THEN [set_variables |-> EmptyDict, assignment_steps |-> <<>>]
    ELSE LET before == first_pass_loop(cls, order, k - 1)
             var_abs == order[k]
         IN  IF var_abs \in DOMAIN before.set_variables THEN before
             ELSE [set_variables |->
                       DictSet(before.set_variables, var_abs,
                               chosen_literal(cls, var_abs) > 0),
                   assignment_steps |->
                       Append(before.assignment_steps, first_pass_step(cls, var_abs))]

first_pass(cls) ==
    LET order == sorted_variables_by_occurrence(cls)
    IN  first_pass_loop(cls, order, Len(order))

----------------------------------------------------------------------------
\* Second pass: local search.

\* Mutant: the fallback of 50 is added to the budget instead of replacing it.
max_flips_adds_default(nv) == nv * FlipsPerVariable + DefaultFlips

\* Mutant: the budget is the variable count, without the factor of 5.
max_flips_no_factor(nv) == IF nv > 0 THEN nv ELSE DefaultFlips

max_flips(nv) == IF nv > 0 THEN nv * FlipsPerVariable ELSE DefaultFlips

\* Mutant: the filter's "not" is dropped.
unsatisfied_clause_indices_no_not(cls, assignment) ==
    {i \in 1..Len(cls) : is_clause_satisfied(cls[i], assignment)}

unsatisfied_clause_indices(cls, assignment) ==
    {i \in 1..Len(cls) : ~is_clause_satisfied(cls[i], assignment)}

\* best_assignment.copy() with the literal's variable set to the literal's sign.
temp_assignment(assignment, literal_in_clause) ==
    DictSet(assignment, Abs(literal_in_clause), literal_in_clause > 0)

\* Mutant: the gain is taken against the count less the target clause.
net_gain_off_by_one(cls, assignment, cached_count, literal_in_clause) ==
    count_satisfied_clauses(cls, temp_assignment(assignment, literal_in_clause))
        - (cached_count - 1)

net_gain(cls, assignment, cached_count, literal_in_clause) ==
    count_satisfied_clauses(cls, temp_assignment(assignment, literal_in_clause))
        - cached_count

\* The literal of the flipped variable that is true before the flip (None when
\* the variable is unassigned).
literal_that_was_true_before_flip(assignment, var_to_flip_abs) ==
    IF var_to_flip_abs \notin DOMAIN assignment THEN NoneVal
    ELSE IF assignment[var_to_flip_abs] THEN Some(var_to_flip_abs)
    ELSE Some(-var_to_flip_abs)

\* Clauses the flip breaks that contain the previously true literal and had
\* exactly one true literal position.
current_flip_multiset_cost(cls, assignment, literal_in_clause) ==
    LET temp == temp_assignment(assignment, literal_in_clause)
        before == literal_that_was_true_before_flip(assignment, Abs(literal_in_clause))
        counts == get_literal_satisfaction_counts(cls, assignment)
    IN  Cardinality({i \in 1..Len(cls) :
            /\ is_clause_satisfied(cls[i], assignment)
            /\ ~is_clause_satisfied(cls[i], temp)
            /\ before \cap Range(cls[i]) # {}
            /\ counts[i] = 1})

\* No candidate yet: best_flip_var_candidate = None, net gain -inf, cost +inf.
NoCandidate ==
    [is_none |-> TRUE, flip_var |-> 0, flip_val |-> FALSE,
     net_gain |-> 0, multiset_cost |-> 0]

\* Mutant: a candidate of equal net gain and equal cost replaces the best.
better_candidate_last_tied(best, gain, cost) ==
    \/ best.is_none
    \/ gain > best.net_gain
    \/ (gain = best.net_gain /\ cost <= best.multiset_cost)

\* The body of the loop over the target clause's literals: the running best
\* is replaced on a greater net gain, or an equal net gain and a smaller cost.
better_candidate(best, gain, cost) ==
    \/ best.is_none
    \/ gain > best.net_gain
    \/ (gain = best.net_gain /\ cost < best.multiset_cost)

RECURSIVE select_candidate(_, _, _, _, _)
select_candidate(cls, assignment, cached_count, target_clause, k) ==
    IF k = 0 THEN NoCandidate
    ELSE LET best == select_candidate(cls, assignment, cached_count, target_clause, k - 1)
             lit == target_clause[k]
             gain == net_gain(cls, assignment, cached_count, lit)
             cost == current_flip_multiset_cost(cls, assignment, lit)
         IN  IF better_candidate(best, gain, cost)
             THEN [is_none |-> FALSE, flip_var |-> Abs(lit), flip_val |-> lit > 0,
                   net_gain |-> gain, multiset_cost |-> cost]
             ELSE best

\* Mutant: only a positive net gain is accepted.
flip_accepted_strict(assignment, target_clause, best) ==
    ~best.is_none /\ best.net_gain > 0

\* Mutant: the selected flip is applied whatever its net gain.
flip_accepted_any(assignment, target_clause, best) ==
    ~best.is_none

\* The acceptance rule of the selected flip.
flip_accepted(assignment, target_clause, best) ==
    /\ ~best.is_none
    /\ \/ best.net_gain > 0
       \/ /\ best.net_gain = 0
          /\ ~is_clause_satisfied(target_clause, assignment)
          /\ is_clause_satisfied(target_clause,
                                 DictSet(assignment, best.flip_var, best.flip_val))

second_pass_step(best, target) ==
    [var |-> best.flip_var, val |-> best.flip_val,
     reason |-> [target |-> target, net_gain |-> best.net_gain,
                 multiset_cost |-> best.multiset_cost]]

----------------------------------------------------------------------------
\* The state machine.

Init ==
    /\ source \in Sources
    /\ pc = "start"
    /\ num_variables = 0
    /\ clauses = <<>>
    /\ best_assignment = EmptyDict
    /\ max_satisfied_count = 0
    /\ assignment_steps = <<>>
    /\ second_pass_steps = <<>>
    /\ flip_count = 0
    /\ target_clause_idx = 0
    /\ best_candidate = NoCandidate
    /\ result = NoneVal

\* parse_dimacs yields no clauses: return False, {}, 0, [].
ReturnNoClauses ==
    /\ pc = "start"
    /\ parse_dimacs(source)[2] = <<>>
    /\ num_variables' = parse_dimacs(source)[1]
    /\ clauses' = parse_dimacs(source)[2]
    /\ result' = Some([is_satisfiable |-> FALSE, assignment |-> Some(EmptyDict),
                       satisfied_count |-> 0, steps |-> <<>>])
    /\ pc' = "done"
    /\ UNCHANGED <<source, best_assignment, max_satisfied_count, assignment_steps,
                   second_pass_steps, flip_count, target_clause_idx, best_candidate>>

\* Parse and run the first pass, up to the entry of the second-pass loop.
FirstPass ==
    /\ pc = "start"
    /\ parse_dimacs(source)[2] # <<>>
    /\ LET cls == parse_dimacs(source)[2]
           fp == first_pass(cls)
       IN  /\ num_variables' = parse_dimacs(source)[1]
           /\ clauses' = cls
           /\ assignment_steps' = fp.assignment_steps
           /\ best_assignment' = fp.set_variables
           /\ max_satisfied_count' = count_satisfied_clauses(cls, fp.set_variables)
    /\ pc' = "second_pass"
    /\ UNCHANGED <<source, second_pass_steps, flip_count, target_clause_idx,
                   best_candidate, result>>

\* for flip_count in range(max_flips): another iteration is due.
budget_left == flip_count < max_flips(num_variables)

\* One iteration of the second-pass loop that does not break: a random
\* unsatisfied clause is targeted, the best candidate among its literals is
\* selected and, when the acceptance rule holds, applied.
FlipIteration ==
    /\ pc = "second_pass"
    /\ budget_left
    /\ \E target \in unsatisfied_clause_indices(clauses, best_assignment) :
         LET best == select_candidate(clauses, best_assignment, max_satisfied_count,
                                      clauses[target], Len(clauses[target]))
         IN  /\ target_clause_idx' = target
             /\ best_candidate' = best
             /\ IF flip_accepted(best_assignment, clauses[target], best)
                THEN /\ best_assignment' =
                            DictSet(best_assignment, best.flip_var, best.flip_val)
                     /\ max_satisfied_count' =
                            count_satisfied_clauses(clauses, best_assignment')
                     /\ second_pass_steps' =
                            Append(second_pass_steps, second_pass_step(best, target))
                ELSE UNCHANGED <<best_assignment, max_satisfied_count,
                                 second_pass_steps>>
    /\ flip_count' = flip_count + 1
    /\ UNCHANGED <<source, pc, num_variables, clauses, assignment_steps, result>>

\* Mutant: the working assignment is returned on failure too.
final_result_keeps_assignment(cls, assignment, steps) ==
    LET final_satisfied_count == count_satisfied_clauses(cls, assignment)
    IN  [is_satisfiable |-> final_satisfied_count = Len(cls),
         assignment |-> Some(assignment),
         satisfied_count |-> final_satisfied_count, steps |-> steps]

\* The loop ends (budget exhausted, or break on no unsatisfied clause) and
\* solve_3sat returns.
final_result(cls, assignment, steps) ==
    LET final_satisfied_count == count_satisfied_clauses(cls, assignment)
    IN  IF final_satisfied_count = Len(cls)
        THEN [is_satisfiable |-> TRUE, assignment |-> Some(assignment),
              satisfied_count |-> Len(cls), steps |-> steps]
        ELSE [is_satisfiable |-> FALSE, assignment |-> NoneVal,
              satisfied_count |-> final_satisfied_count, steps |-> steps]

Return ==
    /\ pc = "second_pass"
    /\ \/ ~budget_left
       \/ unsatisfied_clause_indices(clauses, best_assignment) = {}
    /\ result' = Some(final_result(clauses, best_assignment,
                                   assignment_steps \o second_pass_steps))
    /\ pc' = "done"
    /\ UNCHANGED <<source, num_variables, clauses, best_assignment,
                   max_satisfied_count, assignment_steps, second_pass_steps,
                   flip_count, target_clause_idx, best_candidate>>

Next == ReturnNoClauses \/ FirstPass \/ FlipIteration \/ Return

Spec == Init /\ [][Next]_vars

----------------------------------------------------------------------------
\* Properties.  They are stated on the formula and the assignments directly,
\* not through the operators above.

\* The literal holds under the assignment a.
Holds(l, a) ==
    \/ (l > 0 /\ l \in DOMAIN a /\ a[l])
    \/ (l < 0 /\ (-l) \in DOMAIN a /\ ~a[-l])

\* The clauses of the parsed formula that a satisfies.
SatisfiedBy(a) ==
    {i \in 1..Len(clauses) : \E j \in 1..Len(clauses[i]) : Holds(clauses[i][j], a)}

Returned == pc = "done"

\* The flip budget of the parsed formula, as the specification words it.
Budget == IF num_variables > 0 THEN 5 * num_variables ELSE 50

\* C1: for a formula with at least one clause, solve_3sat reports
\* satisfiable iff the final working assignment satisfies every clause; on
\* success it returns that assignment, which satisfies every clause, and a
\* count equal to the number of clauses; on failure it returns None and the
\* number of clauses the final working assignment satisfies, which is less
\* than the number of clauses.
C1_Verdict ==
    (Returned /\ clauses # <<>>) =>
        LET r == The(result)
            all == 1..Len(clauses)
        IN  /\ r.is_satisfiable <=> (SatisfiedBy(best_assignment) = all)
            /\ r.is_satisfiable =>
                   /\ r.assignment # NoneVal
                   /\ r.assignment = Some(best_assignment)
                   /\ SatisfiedBy(The(r.assignment)) = all
                   /\ r.satisfied_count = Len(clauses)
            /\ ~r.is_satisfiable =>
                   /\ r.assignment = NoneVal
                   /\ r.satisfied_count = Cardinality(SatisfiedBy(best_assignment))
                   /\ r.satisfied_count < Len(clauses)

\* A run that failed after flips, with clauses left unsatisfied.
C1_Witness ==
    /\ Returned
    /\ clauses # <<>>
    /\ ~The(result).is_satisfiable
    /\ second_pass_steps # <<>>
    /\ The(result).satisfied_count >= 1

\* The source parses to no clauses: unreadable, malformed, or without clause lines.
EmptyFormula == source.kind # "ok" \/ source.clauses = <<>>

StepsLeft ==
    CASE pc = "start" -> 5 * source.V + 52
      [] pc = "second_pass" -> 1 + (Budget - flip_count)
      [] OTHER -> 0

\* The iterations stay within the budget and the flip records within the
\* iterations.
WithinBudget ==
    /\ flip_count <= Budget
    /\ Len(second_pass_steps) <= flip_count
    /\ StepsLeft >= 0

\* C3: the second-pass loop runs at most 5 * V iterations when V > 0 and at
\* most 50 when V = 0, the flip records never exceed the iterations, and
\* solve_3sat terminates: every step brings the return nearer.
C3_BudgetAndTermination ==
    [][WithinBudget /\ WithinBudget' /\ StepsLeft' < StepsLeft]_vars

\* A run without a header that used all 50 iterations, flipping in each.
C3_Witness ==
    /\ Returned
    /\ num_variables = 0
    /\ flip_count = 50
    /\ Len(second_pass_steps) = 50

\* The variables of the parsed formula, and the number of clauses a literal is in.
FormulaVars ==
    UNION {{Abs(clauses[i][j]) : j \in 1..Len(clauses[i])} : i \in 1..Len(clauses)}

Occurrences(l) ==
    Cardinality({i \in 1..Len(clauses) : \E j \in 1..Len(clauses[i]) : clauses[i][j] = l})

\* The assignment the specification gives the Construction Heuristic: each
\* variable of the formula is true iff its positive literal is in at least as
\* many clauses as its negative one.
ConstructionAssignment ==
    [v \in FormulaVars |-> Occurrences(v) >= Occurrences(-v)]

ConstructionSatisfiesAll ==
    /\ clauses # <<>>
    /\ SatisfiedBy(ConstructionAssignment) = 1..Len(clauses)

\* C4: when the construction assignment satisfies every clause, the loop
\* exits in its first iteration with no flip, and the assignment returned is
\* the construction assignment with a trace of the construction records only.
C4_NoFlipsWhenConstructionSucceeds ==
    (pc # "start" /\ ConstructionSatisfiesAll) =>
        /\ flip_count = 0
        /\ second_pass_steps = <<>>
        /\ best_assignment = ConstructionAssignment
        /\ Returned =>
               /\ The(result).is_satisfiable
               /\ The(result).assignment = Some(ConstructionAssignment)
               /\ The(result).steps = assignment_steps
               /\ Len(The(result).steps) = Cardinality(FormulaVars)

\* A formula of three clauses over two variables solved by construction alone.
C4_Witness ==
    /\ Returned
    /\ ConstructionSatisfiesAll
    /\ Len(clauses) = 3
    /\ Cardinality(FormulaVars) = 2
    /\ The(result).is_satisfiable

\* The formula {(1), (-1)} with a header of one variable.
IsContradiction ==
    /\ source.kind = "ok"
    /\ source.V = 1
    /\ source.clauses = << <<1>>, <<-1>> >>

\* C5: on {(1), (-1)} with N = 1, whatever targets are drawn, the loop runs
\* its 5 iterations and solve_3sat reports unsatisfiable, one clause
\* satisfied and no assignment.
C5_ContradictionFails ==
    (Returned /\ IsContradiction) =>
        /\ flip_count = 5
        /\ ~The(result).is_satisfiable
        /\ The(result).satisfied_count = 1
        /\ The(result).assignment = NoneVal

C5_Witness == Returned /\ IsContradiction /\ flip_count = 5

\* A step that is one iteration of the second-pass loop, and one that applied
\* its flip.
IterationStep == pc = "second_pass" /\ flip_count' = flip_count + 1

Applied == Len(second_pass_steps') = Len(second_pass_steps) + 1

\* The assignment a with variable v set to b.
Flipped(a, v, b) == [x \in (DOMAIN a) \cup {v} |-> IF x = v THEN b ELSE a[x]]

LastFlip == second_pass_steps[Len(second_pass_steps)]

\* C6 as claimed: an accepted flip of net gain 0 satisfies the target clause
\* and unsatisfies no clause that was satisfied before it.
C6_RescueBreaksNothing ==
    [][(IterationStep /\ Applied /\ best_candidate'.net_gain = 0) =>
          /\ target_clause_idx' \in SatisfiedBy(best_assignment)'
          /\ SatisfiedBy(best_assignment) \subseteq SatisfiedBy(best_assignment)']_vars

\* C6 as amended: an accepted flip of net gain 0 satisfies the target clause,
\* which was unsatisfied, and leaves the number of satisfied clauses as it
\* was: it unsatisfies as many clauses as it newly satisfies, at least one.
C6_RescueKeepsCount ==
    [][(IterationStep /\ Applied /\ best_candidate'.net_gain = 0) =>
          LET before == SatisfiedBy(best_assignment)
              after == SatisfiedBy(best_assignment)'
          IN  /\ target_clause_idx' \in after \ before
              /\ Cardinality(after) = Cardinality(before)
              /\ Cardinality(before \ after) = Cardinality(after \ before)
              /\ before \ after # {}]_vars

\* The last iteration applied a flip of net gain 0.
C6_Witness ==
    /\ pc = "second_pass"
    /\ second_pass_steps # <<>>
    /\ LastFlip.reason.net_gain = 0
    /\ best_candidate.net_gain = 0
    /\ target_clause_idx = LastFlip.reason.target
    /\ target_clause_idx \in SatisfiedBy(best_assignment)

TotalOccurrences(v) == Occurrences(v) + Occurrences(-v)

\* C7: the first pass assigns exactly the variables of the formula, each
\* true iff +v is in at least as many clauses as -v (counted on the whole
\* formula), with one record per variable, in descending order of total
\* occurrences and, among equals, ascending variable id.
C7_Construction ==
    (pc # "start" /\ clauses # <<>>) =>
        LET steps == assignment_steps
        IN  /\ (flip_count = 0) => (best_assignment = ConstructionAssignment)
            /\ DOMAIN best_assignment = FormulaVars
            /\ Len(steps) = Cardinality(FormulaVars)
            /\ {steps[k].var : k \in 1..Len(steps)} = FormulaVars
            /\ \A k \in 1..Len(steps) :
                   steps[k].val = (Occurrences(steps[k].var) >= Occurrences(-steps[k].var))
            /\ \A k, m \in 1..Len(steps) :
                   (k < m) =>
                       \/ TotalOccurrences(steps[k].var) > TotalOccurrences(steps[m].var)
                       \/ /\ TotalOccurrences(steps[k].var) = TotalOccurrences(steps[m].var)
                          /\ steps[k].var < steps[m].var

\* Variable 2 occurs more often than variable 1 and is decided first, one of
\* the two is set false, and one has as many positive as negative occurrences.
C7_Witness ==
    /\ pc = "second_pass"
    /\ flip_count = 0
    /\ Len(assignment_steps) = 2
    /\ assignment_steps[1].var = 2
    /\ \E k \in 1..2 : ~assignment_steps[k].val
    /\ \E v \in FormulaVars : Occurrences(v) = Occurrences(-v)

\* The net gain of setting literal l true in assignment a, and the number of
\* clauses that breaks whose single true literal position it falsifies.
GainOf(a, l) ==
    Cardinality(SatisfiedBy(Flipped(a, Abs(l), l > 0))) - Cardinality(SatisfiedBy(a))

CostOf(a, l) ==
    Cardinality({i \in SatisfiedBy(a) \ SatisfiedBy(Flipped(a, Abs(l), l > 0)) :
        Cardinality({j \in 1..Len(clauses[i]) : Holds(clauses[i][j], a)}) = 1})

\* Position k of clause c is the selection among c's literals in assignment a.
IsSelection(a, c, k) ==
    /\ \A m \in 1..Len(c) : GainOf(a, c[m]) <= GainOf(a, c[k])
    /\ \A m \in 1..Len(c) :
           (GainOf(a, c[m]) = GainOf(a, c[k])) => (CostOf(a, c[m]) >= CostOf(a, c[k]))
    /\ \A m \in 1..(k - 1) :
           ~(GainOf(a, c[m]) = GainOf(a, c[k]) /\ CostOf(a, c[m]) = CostOf(a, c[k]))

C9_Acceptance ==
    [][IterationStep =>
          LET b == best_candidate'
              t == target_clause_idx'
              hypothetical == Flipped(best_assignment, b.flip_var, b.flip_val)
              gain == Cardinality(SatisfiedBy(hypothetical))
                          - Cardinality(SatisfiedBy(best_assignment))
              rule == \/ gain > 0
                      \/ /\ gain = 0
                         /\ t \notin SatisfiedBy(best_assignment)
                         /\ t \in SatisfiedBy(hypothetical)
          IN  /\ Applied <=> rule
              /\ (best_assignment' # best_assignment) <=> rule
              /\ ~rule =>
                     /\ UNCHANGED <<best_assignment, max_satisfied_count,
                                    second_pass_steps>>
                     /\ flip_count' = flip_count + 1
              /\ rule =>
                     /\ DOMAIN best_assignment' = DOMAIN best_assignment
                     /\ {v \in DOMAIN best_assignment :
                            best_assignment'[v] # best_assignment[v]} = {b.flip_var}
                     /\ best_assignment'[b.flip_var] = b.flip_val
                     /\ SubSeq(second_pass_steps', 1, Len(second_pass_steps))
                            = second_pass_steps
                     /\ second_pass_steps'[Len(second_pass_steps')].var = b.flip_var
                     /\ second_pass_steps'[Len(second_pass_steps')].val = b.flip_val]_vars

\* Two iterations have each selected a flip of negative net gain and left
\* everything but the iteration count as it was.
C9_Witness ==
    /\ pc = "second_pass"
    /\ flip_count = 2
    /\ second_pass_steps = <<>>
    /\ target_clause_idx \notin SatisfiedBy(best_assignment)
    /\ ~best_candidate.is_none
    /\ best_candidate.net_gain < 0
    /\ GainOf(best_assignment,
              IF best_candidate.flip_val THEN best_candidate.flip_var
              ELSE -best_candidate.flip_var) < 0

\* C10: the cached count is the number of clauses the working assignment
\* satisfies, no iteration lowers it, and the count returned is at least
\* the count of the construction assignment.
C10_CountCachedAndMonotone ==
    [][/\ (pc' # "start") =>
             (max_satisfied_count' = Cardinality(SatisfiedBy(best_assignment)'))
       /\ (pc = "second_pass") => (max_satisfied_count' >= max_satisfied_count)
       /\ (pc' # "start" /\ clauses' # <<>>) =>
             (max_satisfied_count' >= Cardinality(SatisfiedBy(ConstructionAssignment)'))
       /\ (pc' = "done" /\ clauses' # <<>>) =>
             (The(result').satisfied_count = max_satisfied_count')]_vars

\* A run in which the flips raised the count above the construction's.
C10_Witness ==
    /\ Returned
    /\ clauses # <<>>
    /\ The(result).satisfied_count > Cardinality(SatisfiedBy(ConstructionAssignment))
    /\ ~The(result).is_satisfiable

\* The clauses that setting literal l true in assignment a unsatisfies, and
\* those it newly satisfies.
BrokenBy(a, l) == SatisfiedBy(a) \ SatisfiedBy(Flipped(a, Abs(l), l > 0))

FixedBy(a, l) == SatisfiedBy(Flipped(a, Abs(l), l > 0)) \ SatisfiedBy(a)

\* C11: for every candidate an iteration evaluates (each literal of its
\* target clause), the multiset cost computed is the number of clauses
\* satisfied before the flip and unsatisfied after it, so the net gain
\* computed is the number of newly satisfied clauses less the multiset cost.
C11_CostCountsEveryBrokenClause ==
    [][IterationStep =>
          LET c == clauses[target_clause_idx']
          IN  \A k \in 1..Len(c) :
                  LET cost == current_flip_multiset_cost(clauses, best_assignment, c[k])
                      gain == net_gain(clauses, best_assignment,
                                       max_satisfied_count, c[k])
                  IN  /\ cost = Cardinality(BrokenBy(best_assignment, c[k]))
                      /\ gain = Cardinality(FixedBy(best_assignment, c[k])) - cost]_vars

====
